---- MODULE Spec2Model ----
\* Model of NotifsOutHandler, the handler of one outbound notifications
\* substream (client/network/src/protocol/generic_proto/handler/notif_out.rs).
EXTENDS Integers, Sequences, FiniteSets, TLC

\* ---------------------------------------------------------------- bounds
MaxSubs == 3        \* substreams the negotiation layer hands out in one run
MaxBuf == 2         \* payloads buffered in one substream
MaxQueue == 3       \* entries of events_queue
MaxHandshake == 2   \* distinct handshake messages
MaxPayload == 2     \* distinct payloads of Send
MaxStart == 1       \* latest instant at which the connection opens

Handshakes == 1..MaxHandshake
Payloads == 1..MaxPayload

\* ------------------------------------------------------------- constants
OPEN_TIMEOUT == 10
INITIAL_KEEPALIVE_TIME == 5

\* ----------------------------------------------------------------- state
VARIABLES state, events_queue, when_connection_open,
          requested, nextSub, last, undelivered, announced, quiet
vars == <<state, events_queue, when_connection_open,
          requested, nextSub, last, undelivered, announced, quiet>>

\* A substream: its identity, the payloads pushed to it and not yet flushed,
\* and whether poll_close has been called on it.
NoSub == [id |-> 0, msgs |-> <<>>, closing |-> FALSE]
NewSub(n) == [id |-> n, msgs |-> <<>>, closing |-> FALSE]

\* enum State
Disabled == [tag |-> "Disabled", sub |-> NoSub]
DisabledOpen(sub) == [tag |-> "DisabledOpen", sub |-> sub]
DisabledOpening == [tag |-> "DisabledOpening", sub |-> NoSub]
Opening == [tag |-> "Opening", sub |-> NoSub]
Refused == [tag |-> "Refused", sub |-> NoSub]
Open(sub) == [tag |-> "Open", sub |-> sub]
Poisoned == [tag |-> "Poisoned", sub |-> NoSub]

\* ProtocolsHandlerEvent, as stored in events_queue and returned by poll
OutboundSubstreamRequest == [type |-> "OutboundSubstreamRequest", val |-> OPEN_TIMEOUT]
OutOpen(handshake) == [type |-> "Open", val |-> handshake]
OutClosed == [type |-> "Closed", val |-> 0]
OutRefused == [type |-> "Refused", val |-> 0]
Pending == [type |-> "Pending", val |-> 0]

is_enabled(st) ==
  CASE st.tag = "Disabled" -> FALSE
    [] st.tag = "DisabledOpening" -> FALSE
    [] st.tag = "DisabledOpen" -> FALSE
    [] st.tag = "Opening" -> TRUE
    [] st.tag = "Refused" -> TRUE
    [] st.tag = "Open" -> TRUE
    [] st.tag = "Poisoned" -> FALSE

is_open(st) ==
  CASE st.tag = "Disabled" -> FALSE
    [] st.tag = "DisabledOpening" -> FALSE
    [] st.tag = "DisabledOpen" -> TRUE
    [] st.tag = "Opening" -> FALSE
    [] st.tag = "Refused" -> FALSE
    [] st.tag = "Open" -> TRUE
    [] st.tag = "Poisoned" -> FALSE

\* Each handler below returns the handler's fields after the call. The match
\* is on the value taken out by mem::replace(&mut self.state, State::Poisoned):
\* an arm that assigns nothing leaves State::Poisoned stored.
H(st, q) == [state |-> st, events_queue |-> q]

\* Mutant: the success arm forgets that the handler was disabled meanwhile
\* and announces the substream.
inject_fully_negotiated_outbound_Announces(st, q, handshake_msg, sub) ==
  CASE st.tag = "Opening" -> H(Open(sub), Append(q, OutOpen(handshake_msg)))
    [] st.tag = "DisabledOpening" -> H(DisabledOpen(sub), Append(q, OutOpen(handshake_msg)))
    [] OTHER -> H(Poisoned, q)

inject_fully_negotiated_outbound(st, q, handshake_msg, sub) ==
  CASE st.tag = "Opening" -> H(Open(sub), Append(q, OutOpen(handshake_msg)))
    [] st.tag = "DisabledOpening" -> H(DisabledOpen(sub), q)
    [] st.tag \in {"Disabled", "Refused", "Open", "DisabledOpen"} -> H(Poisoned, q)
    [] st.tag = "Poisoned" -> H(Poisoned, q)

\* Mutant: Enable asks for a second negotiation while one is in flight.
inject_event_Enable_Rerequests(st, q) ==
  CASE st.tag \in {"Disabled", "DisabledOpening"} -> H(Opening, Append(q, OutboundSubstreamRequest))
    [] st.tag = "DisabledOpen" -> H(Open(st.sub), q)
    [] OTHER -> H(Poisoned, q)

inject_event_Enable(st, q) ==
  CASE st.tag = "Disabled" -> H(Opening, Append(q, OutboundSubstreamRequest))
    [] st.tag = "DisabledOpening" -> H(Opening, q)
    [] st.tag = "DisabledOpen" -> H(Open(st.sub), q)
    [] st.tag \in {"Opening", "Refused", "Open"} -> H(Poisoned, q)
    [] st.tag = "Poisoned" -> H(Poisoned, q)

\* Mutant: Disable drops the open substream instead of keeping it for closing.
inject_event_Disable_DropsSubstream(st, q) ==
  CASE st.tag \in {"Disabled", "DisabledOpening"} -> H(Poisoned, q)
    [] st.tag = "DisabledOpen" -> H(Open(st.sub), q)
    [] st.tag = "Opening" -> H(DisabledOpening, q)
    [] st.tag = "Refused" -> H(Disabled, q)
    [] st.tag = "Open" -> H(Disabled, q)
    [] st.tag = "Poisoned" -> H(Poisoned, q)

inject_event_Disable(st, q) ==
  CASE st.tag \in {"Disabled", "DisabledOpening"} -> H(Poisoned, q)
    [] st.tag = "DisabledOpen" -> H(Open(st.sub), q)
    [] st.tag = "Opening" -> H(DisabledOpening, q)
    [] st.tag = "Refused" -> H(Disabled, q)
    [] st.tag = "Open" -> H(DisabledOpen(st.sub), q)
    [] st.tag = "Poisoned" -> H(Poisoned, q)

\* sub.push_message(msg)
push_message(sub, msg) == [sub EXCEPT !.msgs = Append(@, msg)]

\* Mutant: Send writes to any held substream, also one being closed.
inject_event_Send_AnySubstream(st, q, msg) ==
  IF st.tag \in {"Open", "DisabledOpen"}
  THEN H([st EXCEPT !.sub = push_message(st.sub, msg)], q)
  ELSE H(st, q)

inject_event_Send(st, q, msg) ==
  IF st.tag = "Open" THEN H(Open(push_message(st.sub, msg)), q) ELSE H(st, q)

\* Mutant: a failure while disabled is dropped and the handler keeps waiting.
inject_dial_upgrade_error_KeepsWaiting(st, q) ==
  CASE st.tag = "Opening" -> H(Refused, Append(q, OutRefused))
    [] st.tag = "DisabledOpening" -> H(DisabledOpening, q)
    [] OTHER -> H(Poisoned, q)

\* Mutant: a failure while disabled is reported like a failure while enabled.
inject_dial_upgrade_error_AlwaysRefused(st, q) ==
  CASE st.tag \in {"Opening", "DisabledOpening"} -> H(Refused, Append(q, OutRefused))
    [] OTHER -> H(Poisoned, q)

inject_dial_upgrade_error(st, q) ==
  CASE st.tag = "Disabled" -> H(Poisoned, q)
    [] st.tag \in {"DisabledOpen", "Refused", "Open"} -> H(Poisoned, q)
    [] st.tag = "Opening" -> H(Refused, Append(q, OutRefused))
    [] st.tag = "DisabledOpening" -> H(Disabled, q)
    [] st.tag = "Poisoned" -> H(Poisoned, q)

\* KeepAlive
KeepAliveYes == [kind |-> "Yes", at |-> 0]
KeepAliveNo == [kind |-> "No", at |-> 0]
KeepAliveUntil(instant) == [kind |-> "Until", at |-> instant]

\* Mutant: a handler that still holds a substream keeps the connection alive.
connection_keep_alive_WhileHeld(st, opened) ==
  CASE st.tag \in {"Disabled", "DisabledOpening"} ->
         KeepAliveUntil(opened + INITIAL_KEEPALIVE_TIME)
    [] st.tag \in {"Opening", "Open", "DisabledOpen"} -> KeepAliveYes
    [] st.tag \in {"Refused", "Poisoned"} -> KeepAliveNo

connection_keep_alive(st, opened) ==
  CASE st.tag \in {"Disabled", "DisabledOpen", "DisabledOpening"} ->
         KeepAliveUntil(opened + INITIAL_KEEPALIVE_TIME)
    [] st.tag \in {"Opening", "Open"} -> KeepAliveYes
    [] st.tag \in {"Refused", "Poisoned"} -> KeepAliveNo

\* poll: io is what Sink::poll_flush / Sink::poll_close answers in this call.
IoResults == {"Pending", "Ok", "Err"}
R(st, q, ret) == [state |-> st, events_queue |-> q, ret |-> ret]

\* Mutant: a failed flush reports Closed but asks for no new negotiation.
poll_Open_NoReopen(st, q, io) ==
  CASE io = "Pending" -> R(st, q, Pending)
    [] io = "Ok" -> R(Open([st.sub EXCEPT !.msgs = <<>>]), q, Pending)
    [] io = "Err" -> R(Opening, q, OutClosed)

poll_Open(st, q, io) ==
  CASE io = "Pending" -> R(st, q, Pending)
    [] io = "Ok" -> R(Open([st.sub EXCEPT !.msgs = <<>>]), q, Pending)
    [] io = "Err" -> R(Opening, Append(q, OutboundSubstreamRequest), OutClosed)

\* Mutant: a close that fails is retried instead of being taken as closed.
poll_DisabledOpen_RetriesOnErr(st, q, io) ==
  CASE io \in {"Pending", "Err"} -> R(DisabledOpen([st.sub EXCEPT !.closing = TRUE]), q, Pending)
    [] io = "Ok" -> R(Disabled, q, OutClosed)

poll_DisabledOpen(st, q, io) ==
  CASE io = "Pending" -> R(DisabledOpen([st.sub EXCEPT !.closing = TRUE]), q, Pending)
    [] io \in {"Ok", "Err"} -> R(Disabled, q, OutClosed)

\* Mutant: poll does the flush or close work before draining the queue.
poll_LivenessFirst(st, q, io) ==
  LET r == CASE st.tag = "Open" -> poll_Open(st, q, io)
             [] st.tag = "DisabledOpen" -> poll_DisabledOpen(st, q, io)
             [] OTHER -> R(st, q, Pending)
  IN IF r.ret # Pending \/ q = <<>> THEN r
     ELSE R(r.state, Tail(q), Head(q))

\* Mutant: poll takes the newest entry of the queue instead of the oldest.
poll_Lifo(st, q, io) ==
  IF q # <<>> THEN R(st, SubSeq(q, 1, Len(q) - 1), q[Len(q)])
  ELSE CASE st.tag = "Open" -> poll_Open(st, q, io)
         [] st.tag = "DisabledOpen" -> poll_DisabledOpen(st, q, io)
         [] OTHER -> R(st, q, Pending)

poll(st, q, io) ==
  IF q # <<>> THEN R(st, Tail(q), Head(q))
  ELSE CASE st.tag = "Open" -> poll_Open(st, q, io)
         [] st.tag = "DisabledOpen" -> poll_DisabledOpen(st, q, io)
         [] OTHER -> R(st, q, Pending)

\* ------------------------------------------------------------------ Init
NoOp == [op |-> "new", pre_state |-> Disabled, pre_queue |-> <<>>,
         ret |-> Pending, arg |-> 0, sub |-> NoSub, io |-> "None",
         gen |-> <<>>, oldest |-> Pending, pre_announced |-> 0]

Init ==
  /\ state = Disabled
  /\ events_queue = <<>>
  /\ when_connection_open \in 0..MaxStart
  /\ requested = 0
  /\ nextSub = 1
  /\ last = NoOp
  /\ undelivered = <<>>
  /\ announced = 0
  /\ quiet = FALSE

\* The entries a handler pushed at the back of the queue q, given the queue q2
\* it left.
Pushed(q, q2) == SubSeq(q2, Len(q) + 1, Len(q2))

\* The events one poll call generated, in the order of its statements: the
\* entries it pushed, then the event it built and returned. An entry popped
\* from the queue was generated by an earlier call.
poll_generated(q, r) ==
  IF q # <<>> THEN <<>>
  ELSE Pushed(q, r.events_queue) \o (IF r.ret = Pending THEN <<>> ELSE <<r.ret>>)

HasType(seq, t) == \E i \in 1..Len(seq) : seq[i].type = t

\* seq without the first occurrence of e
RECURSIVE RemoveFirst(_, _)
RemoveFirst(seq, e) ==
  IF seq = <<>> THEN <<>>
  ELSE IF Head(seq) = e THEN Tail(seq)
  ELSE <<Head(seq)>> \o RemoveFirst(Tail(seq), e)

\* The record of a call: the fields before it, its arguments, what it
\* returned, the events it generated (gen), the oldest event that was
\* generated and not yet returned by poll when it returned (oldest), and the
\* substream announced before it.
Did(op, ret, arg, sub, io, gen) ==
  [op |-> op, pre_state |-> state, pre_queue |-> events_queue,
   ret |-> ret, arg |-> arg, sub |-> sub, io |-> io, gen |-> gen,
   oldest |-> IF undelivered \o gen = <<>> THEN Pending ELSE Head(undelivered \o gen),
   pre_announced |-> announced]

\* Bookkeeping of a call that generated the events gen and returned ret:
\* undelivered holds the events generated and not yet returned by poll, in the
\* order of their generation; announced is the substream whose Open event was
\* generated with no Closed event generated since (0 when there is none).
Observe(gen, ret, sub) ==
  /\ undelivered' = IF ret = Pending THEN undelivered \o gen
                    ELSE RemoveFirst(undelivered \o gen, ret)
  /\ announced' = IF HasType(gen, "Closed") THEN 0
                  ELSE IF HasType(gen, "Open") THEN sub.id
                  ELSE announced
  /\ UNCHANGED <<when_connection_open, quiet>>

\* --------------------------------------------------------------- actions
Enable ==
  /\ ~quiet
  /\ LET h == inject_event_Enable(state, events_queue)
         gen == Pushed(events_queue, h.events_queue) IN
       /\ Len(h.events_queue) <= MaxQueue
       /\ state' = h.state
       /\ events_queue' = h.events_queue
       /\ last' = Did("Enable", Pending, 0, NoSub, "None", gen)
       /\ Observe(gen, Pending, NoSub)
  /\ UNCHANGED <<requested, nextSub>>

Disable ==
  /\ ~quiet
  /\ LET h == inject_event_Disable(state, events_queue)
         gen == Pushed(events_queue, h.events_queue) IN
       /\ state' = h.state
       /\ events_queue' = h.events_queue
       /\ last' = Did("Disable", Pending, 0, NoSub, "None", gen)
       /\ Observe(gen, Pending, NoSub)
  /\ UNCHANGED <<requested, nextSub>>

Send ==
  \E msg \in Payloads :
    /\ ~quiet
    /\ Len(state.sub.msgs) < MaxBuf
    /\ LET h == inject_event_Send(state, events_queue, msg)
           gen == Pushed(events_queue, h.events_queue) IN
         /\ state' = h.state
         /\ events_queue' = h.events_queue
         /\ last' = Did("Send", Pending, msg, NoSub, "None", gen)
         /\ Observe(gen, Pending, NoSub)
    /\ UNCHANGED <<requested, nextSub>>

\* The negotiation layer answers a request that poll handed to it.
NegotiationSuccess ==
  \E handshake_msg \in Handshakes :
    /\ requested > 0
    /\ nextSub <= MaxSubs
    /\ LET h == inject_fully_negotiated_outbound(state, events_queue,
                                                 handshake_msg, NewSub(nextSub))
           gen == Pushed(events_queue, h.events_queue) IN
         /\ Len(h.events_queue) <= MaxQueue
         /\ state' = h.state
         /\ events_queue' = h.events_queue
         /\ last' = Did("Success", Pending, handshake_msg, NewSub(nextSub), "None", gen)
         /\ Observe(gen, Pending, NewSub(nextSub))
    /\ requested' = requested - 1
    /\ nextSub' = nextSub + 1

NegotiationFailure ==
  /\ requested > 0
  /\ LET h == inject_dial_upgrade_error(state, events_queue)
         gen == Pushed(events_queue, h.events_queue) IN
       /\ Len(h.events_queue) <= MaxQueue
       /\ state' = h.state
       /\ events_queue' = h.events_queue
       /\ last' = Did("Failure", Pending, 0, NoSub, "None", gen)
       /\ Observe(gen, Pending, NoSub)
  /\ requested' = requested - 1
  /\ UNCHANGED nextSub

\* One call of poll in which the substream answers io to poll_flush/poll_close.
PollWith(io) ==
  LET r == poll(state, events_queue, io)
      gen == poll_generated(events_queue, r) IN
    /\ Len(r.events_queue) <= MaxQueue
    /\ state' = r.state
    /\ events_queue' = r.events_queue
    /\ requested' = IF r.ret = OutboundSubstreamRequest THEN requested + 1 ELSE requested
    /\ last' = Did("Poll", r.ret, 0, NoSub, io, gen)
    /\ Observe(gen, r.ret, NoSub)
    /\ UNCHANGED nextSub

Poll == \E io \in IoResults : PollWith(io)

Next == Enable \/ Disable \/ Send \/ NegotiationSuccess \/ NegotiationFailure \/ Poll

Spec == Init /\ [][Next]_vars

\* The same handler driven by a caller that may also deliver a negotiation
\* outcome nobody asked for (the methods are public and take any call order).
UnsolicitedSuccess ==
  \E handshake_msg \in Handshakes :
    /\ requested = 0
    /\ nextSub <= MaxSubs
    /\ LET h == inject_fully_negotiated_outbound(state, events_queue,
                                                 handshake_msg, NewSub(nextSub))
           gen == Pushed(events_queue, h.events_queue) IN
         /\ Len(h.events_queue) <= MaxQueue
         /\ state' = h.state
         /\ events_queue' = h.events_queue
         /\ last' = Did("Success", Pending, handshake_msg, NewSub(nextSub), "None", gen)
         /\ Observe(gen, Pending, NewSub(nextSub))
    /\ nextSub' = nextSub + 1
    /\ UNCHANGED requested

UnsolicitedFailure ==
  /\ requested = 0
  /\ LET h == inject_dial_upgrade_error(state, events_queue)
         gen == Pushed(events_queue, h.events_queue) IN
       /\ Len(h.events_queue) <= MaxQueue
       /\ state' = h.state
       /\ events_queue' = h.events_queue
       /\ last' = Did("Failure", Pending, 0, NoSub, "None", gen)
       /\ Observe(gen, Pending, NoSub)
  /\ UNCHANGED <<requested, nextSub>>

NextAnyOrder == Next \/ UnsolicitedSuccess \/ UnsolicitedFailure

SpecAnyOrder == Init /\ [][NextAnyOrder]_vars

\* The controller sends no further command from now on.
Quiesce ==
  /\ ~quiet
  /\ quiet' = TRUE
  /\ UNCHANGED <<state, events_queue, when_connection_open, requested, nextSub,
                 last, undelivered, announced>>

\* A poll in DisabledOpen in which the close of the substream completes.
CloseCompletes ==
  /\ state.tag = "DisabledOpen"
  /\ (PollWith("Ok") \/ PollWith("Err"))

NextLive == Next \/ Quiesce

\* poll is called again and again, the negotiation layer answers every
\* request handed to it, and a close attempt does not stay pending forever.
Fairness ==
  /\ WF_vars(Poll)
  /\ WF_vars(NegotiationSuccess \/ NegotiationFailure)
  /\ WF_vars(CloseCompletes)

SpecLive == Init /\ [][NextLive]_vars /\ Fairness

Tags == {"Disabled", "DisabledOpen", "DisabledOpening", "Opening", "Refused", "Open", "Poisoned"}

TypeOK ==
  /\ state.tag \in Tags
  /\ (state.sub # NoSub) <=> (state.tag \in {"Open", "DisabledOpen"})
  /\ Len(events_queue) <= MaxQueue
  /\ requested \in 0..MaxQueue + 1
  /\ nextSub \in 1..MaxSubs + 1

\* ---------------------------------------------------------------- claims
\* Number of negotiation requests the handler has emitted and that have not
\* been answered: those still in events_queue plus those poll handed out.
RECURSIVE CountRequests(_)
CountRequests(q) ==
  IF q = <<>> THEN 0
  ELSE (IF Head(q) = OutboundSubstreamRequest THEN 1 ELSE 0) + CountRequests(Tail(q))

Outstanding == requested + CountRequests(events_queue)

InFlightTags == {"Opening", "DisabledOpening"}

\* C1: a misuse command (Enable in Opening, Refused or Open; Disable in
\* Disabled or DisabledOpening) leaves the state, is_enabled(), is_open() and
\* the events queue exactly as they were before the command.
C1_MisuseIsNoOp ==
  ( \/ (last.op = "Enable" /\ last.pre_state.tag \in {"Opening", "Refused", "Open"})
    \/ (last.op = "Disable" /\ last.pre_state.tag \in {"Disabled", "DisabledOpening"}) )
  => /\ state = last.pre_state
     /\ is_enabled(state) = is_enabled(last.pre_state)
     /\ is_open(state) = is_open(last.pre_state)
     /\ events_queue = last.pre_queue

\* C2: between operations the stored state is never Poisoned.
C2_NeverPoisoned == state.tag # "Poisoned"

\* C3: a Disable received in DisabledOpen leaves the handler in DisabledOpen
\* with the same substream; it does not become Open nor enabled.
C3_DisableInDisabledOpenStays ==
  (last.op = "Disable" /\ last.pre_state.tag = "DisabledOpen")
  => /\ state = DisabledOpen(last.pre_state.sub)
     /\ state.tag # "Open"
     /\ ~is_enabled(state)

\* C4: an outcome of a requested negotiation is delivered only in Opening or
\* DisabledOpening, and the number of requested-but-unanswered negotiations is
\* 1 exactly in Opening and DisabledOpening and 0 in every other state.
C4_OutcomeAlwaysAbsorbed ==
  /\ (last.op \in {"Success", "Failure"} => last.pre_state.tag \in InFlightTags)
  /\ Outstanding = (IF state.tag \in InFlightTags THEN 1 ELSE 0)

\* C5: Refused is sticky: in Refused neither poll, Send nor Enable queues a
\* negotiation request, Enable leaves the state Refused, and Disable then
\* Enable goes Refused -> Disabled -> Opening with exactly one fresh request
\* appended by the Enable.
C5_RefusedSticky ==
  /\ (last.pre_state.tag = "Refused" /\ last.op \in {"Poll", "Send", "Enable"})
       => /\ CountRequests(events_queue) <= CountRequests(last.pre_queue)
          /\ (last.op = "Poll" => last.ret # OutClosed)
  /\ (last.pre_state.tag = "Refused" /\ last.op = "Enable") => state = Refused
  /\ (last.pre_state.tag = "Refused" /\ last.op = "Disable")
       => (state = Disabled /\ events_queue = last.pre_queue)
  /\ (last.pre_state.tag = "Disabled" /\ last.op = "Enable")
       => (state = Opening /\ events_queue = Append(last.pre_queue, OutboundSubstreamRequest))

\* C6: a negotiation outcome delivered in Disabled, Refused, Open or
\* DisabledOpen changes neither the state (held substream included) nor the
\* events queue, so produces no output event.
C6_StrayOutcomeIgnored ==
  (last.op \in {"Success", "Failure"}
     /\ last.pre_state.tag \in {"Disabled", "Refused", "Open", "DisabledOpen"})
  => (state = last.pre_state /\ events_queue = last.pre_queue)

C8_DisableTransitions ==
  (last.op = "Disable" /\ last.pre_state.tag \in {"Opening", "Refused", "Open"}) =>
    /\ last.pre_state.tag = "Opening" => state = DisabledOpening
    /\ last.pre_state.tag = "Refused" => state = Disabled
    /\ last.pre_state.tag = "Open" => state = DisabledOpen(last.pre_state.sub)
    /\ events_queue = last.pre_queue
    /\ ~is_enabled(state)

C8_Witness ==
  /\ last.op = "Disable"
  /\ last.pre_state.tag = "Open"
  /\ last.pre_state.sub.msgs # <<>>
  /\ state.tag = "DisabledOpen"

\* C9: a negotiation success with handshake h: in Opening the state becomes
\* Open holding the delivered substream and exactly one Open{h} is appended;
\* in DisabledOpening the state becomes DisabledOpen holding the delivered
\* substream, nothing is appended, is_open() is true and is_enabled() false.
C9_SuccessTransitions ==
  last.op = "Success" =>
    /\ last.pre_state.tag = "Opening"
         => /\ state = Open(last.sub)
            /\ events_queue = Append(last.pre_queue, OutOpen(last.arg))
    /\ last.pre_state.tag = "DisabledOpening"
         => /\ state = DisabledOpen(last.sub)
            /\ events_queue = last.pre_queue
            /\ is_open(state)
            /\ ~is_enabled(state)

C9_Witness ==
  /\ last.op = "Success"
  /\ last.pre_state.tag = "DisabledOpening"
  /\ last.sub.id > 0
  /\ state.tag = "DisabledOpen"

\* C10: a negotiation failure or timeout: in Opening the state becomes Refused
\* and exactly one Refused event is appended; in DisabledOpening the state
\* becomes Disabled and nothing is appended; no negotiation request is queued.
C10_FailureTransitions ==
  last.op = "Failure" =>
    /\ last.pre_state.tag = "Opening"
         => (state = Refused /\ events_queue = Append(last.pre_queue, OutRefused))
    /\ last.pre_state.tag = "DisabledOpening"
         => (state = Disabled /\ events_queue = last.pre_queue)
    /\ last.pre_state.tag \in InFlightTags
         => CountRequests(events_queue) = CountRequests(last.pre_queue)

C10_Witness ==
  /\ last.op = "Failure"
  /\ last.pre_state.tag = "Opening"
  /\ state.tag = "Refused"
  /\ events_queue # <<>>

\* C11: poll with an empty queue in Open: a flush that succeeds or is pending
\* leaves the state Open, emits nothing and returns Pending; a flush that
\* fails moves to Opening, returns exactly one Closed and leaves exactly one
\* fresh negotiation request (timeout 10 s) queued; no other call than Enable
\* and this one ever generates a negotiation request.
C11_PollOpen ==
  /\ (last.op = "Poll" /\ last.pre_state.tag = "Open" /\ last.pre_queue = <<>>) =>
       /\ last.io \in {"Ok", "Pending"}
            => /\ state.tag = "Open"
               /\ state.sub.id = last.pre_state.sub.id
               /\ events_queue = <<>>
               /\ last.gen = <<>>
               /\ last.ret = Pending
       /\ last.io = "Err"
            => /\ state = Opening
               /\ last.ret = OutClosed
               /\ last.gen = <<[type |-> "OutboundSubstreamRequest", val |-> 10], OutClosed>>
               /\ events_queue = <<[type |-> "OutboundSubstreamRequest", val |-> 10]>>
  /\ CountRequests(last.gen) > 0 =>
       \/ last.op = "Enable"
       \/ (last.op = "Poll" /\ last.pre_state.tag = "Open"
             /\ last.pre_queue = <<>> /\ last.io = "Err")

C11_Witness ==
  /\ last.op = "Poll"
  /\ last.pre_state.tag = "Open"
  /\ last.pre_queue = <<>>
  /\ last.io = "Err"
  /\ state.tag = "Opening"
  /\ last.ret = OutClosed

\* C12: poll with an empty queue in DisabledOpen: while the close is pending
\* the state stays DisabledOpen and poll returns Pending; when the close
\* completes, with success or with an error alike, the state becomes Disabled
\* and exactly one Closed is produced: both completions give the same state,
\* event and queue.
C12_PollDisabledOpen ==
  /\ (last.op = "Poll" /\ last.pre_state.tag = "DisabledOpen" /\ last.pre_queue = <<>>) =>
       /\ last.io = "Pending"
            => /\ state.tag = "DisabledOpen"
               /\ state.sub.id = last.pre_state.sub.id
               /\ events_queue = <<>>
               /\ last.gen = <<>>
               /\ last.ret = Pending
       /\ last.io \in {"Ok", "Err"}
            => /\ state = Disabled
               /\ last.ret = OutClosed
               /\ last.gen = <<OutClosed>>
               /\ events_queue = <<>>
  /\ (state.tag = "DisabledOpen" /\ events_queue = <<>>)
       => poll(state, events_queue, "Ok") = poll(state, events_queue, "Err")

C12_Witness ==
  /\ last.op = "Poll"
  /\ last.pre_state.tag = "DisabledOpen"
  /\ last.pre_queue = <<>>
  /\ last.io = "Err"
  /\ state = Disabled
  /\ last.ret = OutClosed

\* The last call left the queue as it was, removed its head, or appended at
\* its tail.
QueueDiscipline ==
  \/ events_queue = last.pre_queue
  \/ (last.pre_queue # <<>> /\ events_queue = Tail(last.pre_queue))
  \/ (Len(events_queue) > Len(last.pre_queue)
        /\ SubSeq(events_queue, 1, Len(last.pre_queue)) = last.pre_queue)

\* C13 (as stated): poll returns the events in the exact order in which the
\* handler generated them (each returned event is the oldest one generated and
\* not yet returned), the queue being appended only at the tail and consumed
\* only from the head.
C13_DeliveredInGenerationOrder ==
  /\ QueueDiscipline
  /\ (last.op = "Poll" /\ last.ret # Pending) => last.ret = last.oldest

\* C13 (amended): the events generated and not yet returned are exactly the
\* queue, in order; the queue is appended only at the tail and consumed only
\* from the head; and poll returns the oldest event not yet returned, except
\* that the Closed of a failed flush, which poll returns directly, goes out
\* before the negotiation request that the same poll call queued just before.
C13_QueueFifo ==
  /\ QueueDiscipline
  /\ undelivered = events_queue
  /\ (last.op = "Poll" /\ last.ret # Pending) =>
       \/ last.ret = last.oldest
       \/ /\ last.ret = OutClosed
          /\ last.gen = <<OutboundSubstreamRequest, OutClosed>>
          /\ last.pre_queue = <<>>

C13_Witness ==
  /\ last.op = "Poll"
  /\ Len(last.pre_queue) >= 2
  /\ last.pre_queue[1] # last.pre_queue[2]
  /\ last.ret = Head(last.pre_queue)
  /\ events_queue = Tail(last.pre_queue)

\* C14: Send never changes the state machine: the state tag and the queue are
\* unchanged and no event is generated; the payload is appended to the
\* substream's buffer only in Open and is discarded in every other state,
\* DisabledOpen included.
C14_SendFrame ==
  last.op = "Send" =>
    /\ state.tag = last.pre_state.tag
    /\ events_queue = last.pre_queue
    /\ last.gen = <<>>
    /\ last.ret = Pending
    /\ last.pre_state.tag = "Open"
         => /\ state.sub.id = last.pre_state.sub.id
            /\ state.sub.msgs = Append(last.pre_state.sub.msgs, last.arg)
            /\ state.sub.closing = last.pre_state.sub.closing
    /\ last.pre_state.tag # "Open" => state = last.pre_state

C14_Witness ==
  /\ last.op = "Send"
  /\ last.pre_state.tag = "DisabledOpen"
  /\ last.pre_state.sub.id > 0
  /\ state = last.pre_state

\* C15: the keep-alive hint is a function of the state alone: Yes exactly in
\* Opening and Open; Until(when_connection_open + 5 s) exactly in Disabled,
\* DisabledOpen and DisabledOpening; No exactly in Refused and Poisoned; and
\* when_connection_open never changes after construction.
KeepAliveTable ==
  LET hint == connection_keep_alive(state, when_connection_open) IN
    /\ hint = KeepAliveYes <=> state.tag \in {"Opening", "Open"}
    /\ hint = KeepAliveUntil(when_connection_open + 5)
         <=> state.tag \in {"Disabled", "DisabledOpen", "DisabledOpening"}
    /\ hint = KeepAliveNo <=> state.tag \in {"Refused", "Poisoned"}

C15_KeepAlive ==
  /\ []KeepAliveTable
  /\ [][when_connection_open' = when_connection_open]_vars

C15_Witness ==
  /\ state.tag = "DisabledOpen"
  /\ when_connection_open > 0
  /\ connection_keep_alive(state, when_connection_open)
       = KeepAliveUntil(when_connection_open + 5)

\* C16: poll with a non-empty queue returns the head entry, removes exactly
\* that entry, leaves the state (held substream included) unchanged and so
\* attempts no flush or close; poll with an empty queue in a state other than
\* Open and DisabledOpen returns Pending and changes nothing.
C16_PollPriority ==
  last.op = "Poll" =>
    /\ last.pre_queue # <<>>
         => /\ last.ret = Head(last.pre_queue)
            /\ events_queue = Tail(last.pre_queue)
            /\ state = last.pre_state
            /\ last.gen = <<>>
    /\ (last.pre_queue = <<>> /\ last.pre_state.tag \notin {"Open", "DisabledOpen"})
         => /\ last.ret = Pending
            /\ state = last.pre_state
            /\ events_queue = <<>>
    /\ state # last.pre_state
         => (last.pre_queue = <<>> /\ last.pre_state.tag \in {"Open", "DisabledOpen"})

C16_Witness ==
  /\ last.op = "Poll"
  /\ last.pre_queue # <<>>
  /\ last.pre_state.tag = "DisabledOpen"
  /\ last.io \in {"Ok", "Err"}
  /\ state = last.pre_state
  /\ ~state.sub.closing

\* C17: no call takes the handler from DisabledOpen to Open while keeping the
\* same substream.
C17_NeverReopenSameSubstream ==
  (last.pre_state.tag = "DisabledOpen" /\ state.tag = "Open")
  => state.sub.id # last.pre_state.sub.id

C19_OpenIsAnnounced ==
  state.tag = "Open" => announced = state.sub.id

\* C20: after a Disable accepted in Opening, Refused or Open, if the
\* controller sends no further command, the handler eventually reaches
\* Disabled, holding no substream and with no negotiation outstanding, and
\* stays there.
DisableAccepted ==
  /\ quiet
  /\ last.op = "Disable"
  /\ last.pre_state.tag \in {"Opening", "Refused", "Open"}

Released == state = Disabled /\ Outstanding = 0

C20_DisableReleases == [](DisableAccepted => <>[]Released)

C20_Witness ==
  /\ quiet
  /\ last.op = "Poll"
  /\ last.pre_state.tag = "DisabledOpen"
  /\ last.pre_state.sub.id > 0
  /\ Released
====
